---------------------------- MODULE Spec2Model ----------------------------
(***************************************************************************)
(* Message delivery service: the message store (PostgreSQL and in-memory   *)
(* repositories), the orchestrator (messageService) run by several         *)
(* workers, the scheduler with its two background loops, and the webhook   *)
(* delivery client.                                                        *)
(*                                                                         *)
(* Spec          : store + orchestrator, several concurrent workers.       *)
(* SpecOne       : store + orchestrator, one worker, with or without cache.*)
(* SpecLive      : the two scheduler loops driving the orchestrator, fair. *)
(* SpecSched     : scheduler lifecycle (Start / Stop / the two loops).     *)
(* SpecSchedFair : SpecSched with the goroutines scheduled fairly.         *)
(* SpecHook      : one webhookClient.SendMessage call after another.       *)
(* SpecRepo      : the MessageRepository methods called directly.          *)
(* SpecList      : GetSentMessages called between writes of the store.     *)
(***************************************************************************)
EXTENDS Integers, Sequences, FiniteSets, TLC

(***************************************************************************)
(* Bounds of the model and program constants.                              *)
(***************************************************************************)
MaxMsgs == 2              \* messages ever created
NumWorkers == 3           \* concurrent callers of the orchestrator
MaxBatch == 2             \* largest batchSize / limit passed by a caller
MaxRetriesReq == 1        \* largest max_retries a create request asks for
MaxFaults == 1            \* store errors injected in one behaviour
MaxCalls == 3             \* orchestrator calls made in one behaviour
NumCallers == 2           \* concurrent callers of Start / Stop / IsRunning
MaxStarts == 2            \* successful Start() calls that are told apart
DefaultMaxRetries == 3    \* repo Create: maxRetries == 0 -> 3
DefaultBatchSize == 10    \* ProcessPendingMessages: const defaultBatchSize = 10

Workers == 1..NumWorkers
NoWorker == 0
NULL == 0                 \* a nullable timestamp that is not set
NoError == <<>>           \* error_message IS NULL / a nil error
NoReturn == [w |-> NoWorker, n |-> 0, err |-> FALSE]

VARIABLES
    repoKind,       \* "postgres" | "memory": which MessageRepository is wired
    webhookClient,  \* TRUE iff messageService.webhookClient != nil
    messages,       \* the messages table: sequence indexed by id
    rowLock,        \* row id -> worker whose in-flight statement locks it
    faults,         \* store errors still to be injected
    pc,             \* worker -> position in its orchestrator call
    op,             \* worker -> "process" | "retry" | "none"
    limit,          \* worker -> batchSize of the call
    batch,          \* worker -> the messages its fetch returned
    idx,            \* worker -> index in batch of the message in hand
    err,            \* worker -> error in hand (NoError if none)
    count,          \* worker -> processed / retried counter of the call
    ret,            \* what the step just taken returned to a caller, if it was a return
    budget,         \* orchestrator (or direct store write) calls still to be made
    overlap,        \* worker -> workers whose select call overlapped its own
    cycles,         \* id -> SendMessage invocations made for the message
    failedCycles,   \* id -> SendMessage invocations that returned an error
    running,        \* Scheduler.running
    ctx,            \* Scheduler.ctx: "nil" | "active" | "cancelled"
    parent,         \* the context passed to Start: "none" | "background" | "request"
    parentDone,     \* that context is done
    mu,             \* Scheduler.mu: 0 free, else the caller that holds it
    wg,             \* Scheduler.wg counter
    loopPc,         \* loop -> "none" | "select" | "once" | "exited"
    tick,           \* loop -> a tick is pending on ticker.C
    callerPc,       \* caller -> "idle" | "stopping" (inside Stop, at s.wg.Wait())
    result,         \* the lifecycle call the step just taken completed, and its outcome
    hookPc,         \* SendMessage call: "idle" | "attempt" (in httpClient.Do) |
                    \*   "body" (in io.ReadAll) | "wait" (on the backoff timer)
    resp,           \* the response httpClient.Do returned, while its body is read
    url,            \* message.WebhookURL of the SendMessage call
    responses,      \* outcome of each HTTP attempt of the call, in order
    retries,        \* the attempt counter of retry.WithMaxRetries
    ctxDone,        \* the context of the call is past its deadline
    entryExpired,   \* it already was when SendMessage was called
    capReached,     \* BackoffMax has elapsed since the backoff was built
    hookResult,     \* what SendMessage returned: "none" (not yet) | "nil" | an error
    reply,          \* the repository call the step just taken made, and its outcome
    cache,          \* TRUE iff messageService.cache != nil
    cached,         \* ids whose metadata the Redis cache holds
    starts          \* which context s.ctx holds: the Start() calls that succeeded so
                    \*   far, counted up to MaxStarts

storeVars == <<repoKind, webhookClient, messages, rowLock, faults, pc, op,
               limit, batch, idx, err, count, ret, budget, overlap, cycles,
               failedCycles>>
schedVars == <<running, ctx, parent, parentDone, mu, wg, loopPc, tick, callerPc, result,
               starts>>
cacheVars == <<cache, cached>>
hookVars == <<hookPc, resp, url, responses, retries, ctxDone, entryExpired, capReached,
              hookResult>>
vars == <<repoKind, webhookClient, messages, rowLock, faults, pc, op,
          limit, batch, idx, err, count, ret, budget, overlap, cycles, failedCycles,
          running, ctx, parent, parentDone, mu, wg, loopPc, tick, callerPc, result,
          hookPc, resp, url, responses, retries, ctxDone, entryExpired, capReached,
          hookResult, reply, cache, cached, starts>>

(***************************************************************************)
(* domain.Message                                                          *)
(***************************************************************************)
Ids == 1..Len(messages)

\* func (m *Message) CanRetry() bool
CanRetry(m) == m.status = "failed" /\ m.retry_count < m.max_retries

\* WHERE status = 'pending' OR (status = 'failed' AND retry_count < max_retries)
Unsent(m) == m.status = "pending" \/ (m.status = "failed" /\ m.retry_count < m.max_retries)

\* the part of a row a caller keeps after a fetch
Snapshot(i) == [id |-> i, status |-> messages[i].status,
                retry_count |-> messages[i].retry_count,
                max_retries |-> messages[i].max_retries]

Min(a, b) == IF a < b THEN a ELSE b

\* all orderings (without repetition) of n elements of S
RECURSIVE Arrangements(_, _)
Arrangements(S, n) ==
    IF n = 0 \/ S = {} THEN {<<>>}
    ELSE UNION {{<<x>> \o t : t \in Arrangements(S \ {x}, n - 1)} : x \in S}

\* ORDER BY created_at ASC: ids are handed out in creation order
RECURSIVE ByCreatedAt(_)
ByCreatedAt(S) ==
    IF S = {} THEN <<>>
    ELSE LET x == CHOOSE y \in S : \A z \in S : y <= z
         IN <<x>> \o ByCreatedAt(S \ {x})

\* ORDER BY failed_at ASC
RECURSIVE ByFailedAt(_)
ByFailedAt(S) ==
    IF S = {} THEN <<>>
    ELSE LET x == CHOOSE y \in S : \A z \in S :
                      \/ messages[y].failed_at < messages[z].failed_at
                      \/ (messages[y].failed_at = messages[z].failed_at /\ y <= z)
         IN <<x>> \o ByFailedAt(S \ {x})

Take(s, n) == SubSeq(s, 1, Min(n, Len(s)))

BatchIds(w) == {batch[w][k].id : k \in 1..Len(batch[w])}

Rows(ids) == [k \in 1..Len(ids) |-> Snapshot(ids[k])]

\* the message a worker's loop is at
Cur(w) == batch[w][idx[w]]

\* what message.CanRetry() may read: the scanned copy (PostgreSQL), or the shared
\* *domain.Message of the in-memory map, read without the repository lock
Views(w) ==
    IF repoKind = "memory" THEN {Cur(w), Snapshot(Cur(w).id)} ELSE {Cur(w)}

(***************************************************************************)
(* Construction                                                            *)
(***************************************************************************)
InitStore ==
    /\ repoKind \in {"postgres", "memory"}
    /\ webhookClient \in BOOLEAN
    /\ messages = <<>>
    /\ rowLock = <<>>
    /\ faults = MaxFaults
    /\ pc = [w \in Workers |-> "idle"]
    /\ op = [w \in Workers |-> "none"]
    /\ limit = [w \in Workers |-> 0]
    /\ batch = [w \in Workers |-> <<>>]
    /\ idx = [w \in Workers |-> 0]
    /\ err = [w \in Workers |-> NoError]
    /\ count = [w \in Workers |-> 0]
    /\ ret = NoReturn
    /\ budget = MaxCalls
    /\ overlap = [w \in Workers |-> {}]
    /\ cycles = <<>>
    /\ failedCycles = <<>>

(***************************************************************************)
(* Message store: Create, MarkSent, MarkFailed (both repositories)         *)
(***************************************************************************)
\* Time is kept up to order, the only thing the program does with timestamps:
\* NOW() is later than every timestamp stored, and after a write the timestamps
\* of the table are renumbered 1, 2, ... in their order.
Stamps(msgs) ==
    ({msgs[i].sent_at : i \in 1..Len(msgs)} \cup {msgs[i].failed_at : i \in 1..Len(msgs)})
        \ {NULL}

Now == Cardinality(Stamps(messages)) + 1

Rank(T, t) == IF t = NULL THEN NULL ELSE Cardinality({u \in T : u <= t})

Normalise(msgs) ==
    [i \in 1..Len(msgs) |->
        [msgs[i] EXCEPT !.sent_at = Rank(Stamps(msgs), @),
                        !.failed_at = Rank(Stamps(msgs), @)]]

\* Create that stores the requested max_retries as it is; C28 does not hold of it
CreateNoDefault(req) ==
    Append(messages,
           [recipient |-> req.recipient, content |-> req.content,
            webhook_url |-> req.webhook_url, status |-> "pending",
            max_retries |-> req.max_retries, retry_count |-> 0,
            sent_at |-> NULL, failed_at |-> NULL,
            error_message |-> NoError])

\* repo Create: status pending, retry_count 0, max_retries defaulted, next id
Create(req) ==
    LET maxRetries == IF req.max_retries = 0 THEN DefaultMaxRetries ELSE req.max_retries
    IN Append(messages,
              [recipient |-> req.recipient, content |-> req.content,
               webhook_url |-> req.webhook_url, status |-> "pending",
               max_retries |-> maxRetries, retry_count |-> 0,
               sent_at |-> NULL, failed_at |-> NULL,
               error_message |-> NoError])

\* MarkSent that backdates the stamp of a message already sent to the earliest time
\* of the table; C30 does not hold of it
MarkSentBackdated(i) ==
    IF i \notin Ids THEN messages
    ELSE [messages EXCEPT ![i].status = "sent",
                          ![i].sent_at = IF messages[i].status = "sent" THEN 1 ELSE Now]

\* MarkSent that leaves sent_at alone; C17 does not hold of it
MarkSentNoStamp(i) ==
    [messages EXCEPT ![i].status = "sent"]

\* UPDATE messages SET status = 'sent', sent_at = NOW() WHERE id = $2
\* (in memory: message.Status = sent; message.SentAt = &now)
\* (no row / no map entry with that id: nothing is written)
MarkSent(i) ==
    IF i \notin Ids THEN messages
    ELSE [messages EXCEPT ![i].status = "sent", ![i].sent_at = Now]

\* MarkFailed that counts the failure twice; C18 does not hold of it
MarkFailedTwice(i, e) ==
    [messages EXCEPT ![i].status = "failed", ![i].error_message = e,
                     ![i].failed_at = Now,
                     ![i].retry_count = messages[i].retry_count + 2]

\* UPDATE messages SET status = 'failed', error_message = $2, failed_at = NOW(),
\*   retry_count = retry_count + 1 WHERE id = $3
\* (in memory: Status, ErrorMessage and RetryCount++ only; FailedAt is not set)
MarkFailed(i, e) ==
    IF i \notin Ids THEN messages
    ELSE IF repoKind = "postgres"
    THEN [messages EXCEPT ![i].status = "failed", ![i].error_message = e,
                          ![i].failed_at = Now,
                          ![i].retry_count = messages[i].retry_count + 1]
    ELSE [messages EXCEPT ![i].status = "failed", ![i].error_message = e,
                          ![i].retry_count = messages[i].retry_count + 1]

\* the existence check that never reports a missing id; C29 does not hold of it
NotFoundIgnored(i) == "nil"

\* rowsAffected == 0 / sql.ErrNoRows -> "message with ID %d not found";
\* in memory: !exists -> domain.ErrMessageNotFound
NotFound(i) == IF i \in Ids THEN "nil" ELSE "not found"

\* GetByID: the row with that id, or domain.ErrMessageNotFound
GetByID(i) ==
    IF i \in Ids THEN [found |-> TRUE, message |-> messages[i]]
    ELSE [found |-> FALSE, message |-> NoError]

SentIds == {i \in Ids : messages[i].status = "sent"}

\* the order the sent messages are listed in: ORDER BY sent_at DESC (PostgreSQL),
\* the iteration order of the map (in memory)
SentOrders ==
    {a \in Arrangements(SentIds, Cardinality(SentIds)) :
        repoKind = "postgres" =>
            \A j, k \in 1..Len(a) :
                j < k => messages[a[j]].sent_at >= messages[a[k]].sent_at}

\* LIMIT $2 OFFSET $3; in memory: sentMessages[start:end] with start and end
\* clamped to total
Page(a, offset, lim) ==
    LET total == Len(a)
        start == IF offset > total THEN total ELSE offset
        end == IF start + lim > total THEN total ELSE start + lim
    IN IF start >= total THEN <<>> ELSE SubSeq(a, start + 1, end)

\* GetSentMessages that reports the size of the page as total; C31 does not hold of it
GetSentMessagesPageTotal(offset, lim) ==
    {[records |-> Page(a, offset, lim), total |-> Len(Page(a, offset, lim))] :
        a \in SentOrders}

\* GetSentMessages(ctx, offset, limit): the results the call can return
GetSentMessages(offset, lim) ==
    {[records |-> Page(a, offset, lim), total |-> Len(a)] : a \in SentOrders}

\* an UPDATE waits for a row lock taken by another session's SELECT ... FOR UPDATE
CanWrite(w, i) == rowLock[i] \in {NoWorker, w}

\* a store call that can end in a persistence error: only the PostgreSQL repository
\* returns one (the in-memory one fails only on a missing id)
StoreOutcomes == IF repoKind = "postgres" /\ faults > 0 THEN {"ok", "error"} ELSE {"ok"}

Spend(o) == faults' = IF o = "error" THEN faults - 1 ELSE faults

(***************************************************************************)
(* messageService.CreateMessage                                            *)
(***************************************************************************)
Requests ==
    [recipient : {"", "r"}, content : {"", "c"}, webhook_url : {"", "u"},
     max_retries : 0..MaxRetriesReq]

Valid(req) == req.recipient # "" /\ req.content # "" /\ req.webhook_url # ""

\* CreateMessage that passes every request to the store; C27 does not hold of it
CreateMessageNoValidation(req) ==
    /\ Len(messages) < MaxMsgs
    /\ messages' = Create(req)
    /\ rowLock' = Append(rowLock, NoWorker)
    /\ cycles' = Append(cycles, 0)
    /\ failedCycles' = Append(failedCycles, 0)
    /\ ret' = [w |-> NoWorker, n |-> Len(messages) + 1, err |-> FALSE]
    /\ UNCHANGED <<repoKind, webhookClient, faults, budget, pc, op, limit, batch, idx,
                   err, count, overlap>>
    /\ UNCHANGED <<schedVars, hookVars, reply, cacheVars>>

\* CreateMessage: a validation error before s.repo.Create, else the new message
\* (ret: n is its id, err the validation error)
CreateMessage(req) ==
    /\ Len(messages) < MaxMsgs
    /\ IF Valid(req)
       THEN /\ messages' = Create(req)
            /\ rowLock' = Append(rowLock, NoWorker)
            /\ cycles' = Append(cycles, 0)
            /\ failedCycles' = Append(failedCycles, 0)
            /\ ret' = [w |-> NoWorker, n |-> Len(messages) + 1, err |-> FALSE]
       ELSE /\ UNCHANGED <<messages, rowLock, cycles, failedCycles>>
            /\ ret' = [w |-> NoWorker, n |-> 0, err |-> TRUE]
    /\ UNCHANGED <<repoKind, webhookClient, faults, budget, pc, op, limit, batch, idx,
                   err, count, overlap>>
    /\ UNCHANGED <<schedVars, hookVars, reply, cacheVars>>

(***************************************************************************)
(* messageService.ProcessUnsentMessages / RetryFailedMessages, one worker  *)
(* per call.  pc: idle -> select -> (locked ->) loop -> (remark ->) loop   *)
(* ... -> idle                                                             *)
(***************************************************************************)
\* the call returns (c, e) to its caller
Return(w, c, e) ==
    /\ pc' = [pc EXCEPT ![w] = "idle"]
    /\ op' = [op EXCEPT ![w] = "none"]
    /\ batch' = [batch EXCEPT ![w] = <<>>]
    /\ idx' = [idx EXCEPT ![w] = 0]
    /\ err' = [err EXCEPT ![w] = NoError]
    /\ count' = [count EXCEPT ![w] = 0]
    /\ ret' = [w |-> w, n |-> c, err |-> e]
    /\ overlap' = [v \in Workers |-> IF v = w THEN {} ELSE overlap[v] \ {w}]

\* the for loop moves to the next message of the batch, or the call returns
Continue(w, c) ==
    IF idx[w] < Len(batch[w])
    THEN /\ pc' = [pc EXCEPT ![w] = "loop"]
         /\ idx' = [idx EXCEPT ![w] = idx[w] + 1]
         /\ err' = [err EXCEPT ![w] = NoError]
         /\ count' = [count EXCEPT ![w] = c]
         /\ ret' = NoReturn
         /\ UNCHANGED <<op, batch, overlap>>
    ELSE Return(w, c, FALSE)

\* processMessage failed inside RetryFailedMessages: the caller will mark again
Remark(w, e) ==
    /\ pc' = [pc EXCEPT ![w] = "remark"]
    /\ err' = [err EXCEPT ![w] = e]
    /\ ret' = NoReturn
    /\ UNCHANGED <<op, batch, idx, count, overlap>>

\* the fetch returned rows: len(messages) == 0 returns (0, nil), else the loop starts
Fetched(w, rows) ==
    IF Len(rows) = 0
    THEN Return(w, 0, FALSE)
    ELSE /\ pc' = [pc EXCEPT ![w] = "loop"]
         /\ batch' = [batch EXCEPT ![w] = rows]
         /\ idx' = [idx EXCEPT ![w] = 1]
         /\ ret' = NoReturn
         /\ UNCHANGED <<op, err, count, overlap>>

\* a worker enters ProcessUnsentMessages(batchSize) and calls SelectUnsentForUpdate
ProcessUnsentMessages(w, n) ==
    /\ pc[w] = "idle"
    /\ budget > 0
    /\ budget' = budget - 1
    /\ pc' = [pc EXCEPT ![w] = "select"]
    /\ op' = [op EXCEPT ![w] = "process"]
    /\ limit' = [limit EXCEPT ![w] = n]
    /\ ret' = NoReturn
    /\ LET others == {v \in Workers \ {w} : op[v] = "process" /\ pc[v] \in {"select", "locked"}}
       IN overlap' = [v \in Workers |->
                        IF v = w THEN others
                        ELSE IF v \in others THEN overlap[v] \cup {w} ELSE overlap[v]]
    /\ UNCHANGED <<repoKind, webhookClient, messages, rowLock, faults, batch, idx,
                   err, count, cycles, failedCycles>>
    /\ UNCHANGED <<schedVars, hookVars, reply, cacheVars>>

\* a worker enters RetryFailedMessages(batchSize) and calls GetFailedMessages
RetryFailedMessages(w, n) ==
    /\ pc[w] = "idle"
    /\ budget > 0
    /\ budget' = budget - 1
    /\ pc' = [pc EXCEPT ![w] = "select"]
    /\ op' = [op EXCEPT ![w] = "retry"]
    /\ limit' = [limit EXCEPT ![w] = n]
    /\ ret' = NoReturn
    /\ UNCHANGED <<repoKind, webhookClient, messages, rowLock, faults, batch, idx,
                   err, count, overlap, cycles, failedCycles>>
    /\ UNCHANGED <<schedVars, hookVars, reply, cacheVars>>

\* messageRepository.SelectUnsentForUpdate, the statement runs: the oldest `limit`
\* unsent rows that no other session has locked are locked and read
SelectUnsentForUpdateLock(w) ==
    /\ pc[w] = "select" /\ op[w] = "process" /\ repoKind = "postgres"
    /\ LET free == {i \in Ids : Unsent(messages[i]) /\ rowLock[i] = NoWorker}
           ids  == Take(ByCreatedAt(free), limit[w])
       IN /\ batch' = [batch EXCEPT ![w] = Rows(ids)]
          /\ rowLock' = [i \in Ids |->
                           IF \E k \in 1..Len(ids) : ids[k] = i THEN w ELSE rowLock[i]]
    /\ pc' = [pc EXCEPT ![w] = "locked"]
    /\ limit' = [limit EXCEPT ![w] = 0]
    /\ ret' = NoReturn
    /\ UNCHANGED <<repoKind, webhookClient, messages, faults, budget, op, idx, err,
                   count, overlap, cycles, failedCycles>>
    /\ UNCHANGED <<schedVars, hookVars, reply, cacheVars>>

\* ... and ends: r.db.QueryContext runs outside any transaction, so the statement's
\* implicit transaction commits and the row locks are gone when the rows are returned
SelectUnsentForUpdateCommit(w) ==
    /\ pc[w] = "locked"
    /\ rowLock' = [i \in Ids |-> IF rowLock[i] = w THEN NoWorker ELSE rowLock[i]]
    /\ Fetched(w, batch[w])
    /\ UNCHANGED <<repoKind, webhookClient, messages, faults, budget, limit, cycles,
                   failedCycles>>
    /\ UNCHANGED <<schedVars, hookVars, reply, cacheVars>>

\* inMemoryMessageRepository.SelectUnsentForUpdate: under RLock, the first `limit`
\* pending messages in map iteration order; nothing is marked as claimed
SelectUnsentForUpdate(w) ==
    /\ pc[w] = "select" /\ op[w] = "process" /\ repoKind = "memory"
    /\ LET pending == {i \in Ids : messages[i].status = "pending"}
       IN \E ids \in Arrangements(pending, Min(limit[w], Cardinality(pending))) :
             Fetched(w, Rows(ids))
    /\ limit' = [limit EXCEPT ![w] = 0]
    /\ UNCHANGED <<repoKind, webhookClient, messages, rowLock, faults, budget, cycles,
                   failedCycles>>
    /\ UNCHANGED <<schedVars, hookVars, reply, cacheVars>>

\* GetFailedMessages that finds no row; C38 does not hold of it
GetFailedMessagesNone(w) ==
    /\ pc[w] = "select" /\ op[w] = "retry"
    /\ Fetched(w, <<>>)
    /\ limit' = [limit EXCEPT ![w] = 0]
    /\ UNCHANGED <<repoKind, webhookClient, messages, rowLock, faults, budget, cycles,
                   failedCycles>>
    /\ UNCHANGED <<schedVars, hookVars, reply, cacheVars>>

\* GetFailedMessages: failed rows with retries left, no lock taken;
\* ORDER BY failed_at ASC LIMIT n (PostgreSQL), map iteration order (in memory)
GetFailedMessages(w) ==
    /\ pc[w] = "select" /\ op[w] = "retry"
    /\ LET failed == {i \in Ids : CanRetry(messages[i])}
       IN IF repoKind = "postgres"
          THEN Fetched(w, Rows(Take(ByFailedAt(failed), limit[w])))
          ELSE \E ids \in Arrangements(failed, Min(limit[w], Cardinality(failed))) :
                  Fetched(w, Rows(ids))
    /\ limit' = [limit EXCEPT ![w] = 0]
    /\ UNCHANGED <<repoKind, webhookClient, messages, rowLock, faults, budget, cycles,
                   failedCycles>>
    /\ UNCHANGED <<schedVars, hookVars, reply, cacheVars>>

\* a failed fetch reported as an empty batch; C15 does not hold of it
FetchErrorSwallowed(w) ==
    /\ pc[w] = "select"
    /\ "error" \in StoreOutcomes
    /\ Spend("error")
    /\ Return(w, 0, FALSE)
    /\ limit' = [limit EXCEPT ![w] = 0]
    /\ UNCHANGED <<repoKind, webhookClient, messages, rowLock, budget, cycles,
                   failedCycles>>
    /\ UNCHANGED <<schedVars, hookVars, reply, cacheVars>>

\* the batch fetch fails: the call returns (0, err)
FetchError(w) ==
    /\ pc[w] = "select"
    /\ "error" \in StoreOutcomes
    /\ Spend("error")
    /\ Return(w, 0, TRUE)
    /\ limit' = [limit EXCEPT ![w] = 0]
    /\ UNCHANGED <<repoKind, webhookClient, messages, rowLock, budget, cycles,
                   failedCycles>>
    /\ UNCHANGED <<schedVars, hookVars, reply, cacheVars>>

\* RetryFailedMessages: if !message.CanRetry() { continue }
SkipNotRetryable(w) ==
    /\ pc[w] = "loop" /\ op[w] = "retry"
    /\ \E m \in Views(w) : ~CanRetry(m)
    /\ Continue(w, count[w])
    /\ UNCHANGED <<repoKind, webhookClient, messages, rowLock, faults, budget, limit,
                   cycles, failedCycles>>
    /\ UNCHANGED <<schedVars, hookVars, reply, cacheVars>>

\* the delivery outcomes of processMessage: with a webhook client, SendMessage
\* returns nil or an error; with none the delivery is skipped
SendOutcomes == IF webhookClient THEN {"sent", "failed"} ELSE {"skipped"}

\* the outcomes of s.cache.CacheMessageMetadata: no cache configured, written, failed
CacheOutcomes == IF cache THEN {"ok", "error"} ELSE {"skipped"}

\* processMessage returning the error of the cache write; C32 does not hold of it
cacheErrorReturned(c) == IF c = "error" THEN <<"failed to cache metadata", "cache">> ELSE NoError

\* what processMessage returns after the cache write: its error is logged
\* ("Log error but don't fail the operation"), never returned
cacheError(c) == NoError

\* the writes of processMessage to the cache: after a MarkSent that succeeded
Cached(w, d, o, c) ==
    cached' = IF d # "failed" /\ o = "ok" /\ c = "ok" THEN cached \cup {Cur(w).id} ELSE cached

\* processMessage whose failure ends the whole ProcessUnsentMessages call with an
\* error; C14 does not hold of it
processMessageAbort(w, d, o) ==
    /\ pc[w] = "loop"
    /\ op[w] = "retry" => \E m \in Views(w) : CanRetry(m)
    /\ CanWrite(w, Cur(w).id)
    /\ cycles' = [cycles EXCEPT ![Cur(w).id] = IF d = "skipped" THEN @ ELSE @ + 1]
    /\ failedCycles' = [failedCycles EXCEPT ![Cur(w).id] = IF d = "failed" THEN @ + 1 ELSE @]
    /\ Spend(o)
    /\ IF d = "failed"
       THEN /\ messages' = IF o = "ok" THEN Normalise(MarkFailed(Cur(w).id, <<"send">>))
                           ELSE messages
            /\ IF op[w] = "retry"
               THEN Remark(w, IF o = "ok" THEN <<"webhook delivery failed", "send">>
                              ELSE <<"failed to mark message as failed", "store">>)
               ELSE Return(w, count[w], TRUE)
       ELSE /\ messages' = IF o = "ok" THEN Normalise(MarkSent(Cur(w).id)) ELSE messages
            /\ IF o = "ok"
               THEN Continue(w, count[w] + 1)
               ELSE IF op[w] = "retry"
                    THEN Remark(w, <<"failed to mark message as sent", "store">>)
                    ELSE Continue(w, count[w])
    /\ \E c \in CacheOutcomes : Cached(w, d, o, c)
    /\ UNCHANGED <<repoKind, webhookClient, rowLock, budget, limit, cache>>
    /\ UNCHANGED <<schedVars, hookVars, reply>>

\* processMessage(ctx, message) for the message in hand, as far as the store and the
\* caller see it: one delivery cycle, then MarkFailed(id, err.Error()) if SendMessage
\* failed, MarkSent(id) otherwise; c is the outcome of the cache write that follows a
\* MarkSent that succeeded
processMessageStore(w, d, o, c) ==
    /\ pc[w] = "loop"
    /\ op[w] = "retry" => \E m \in Views(w) : CanRetry(m)
    /\ CanWrite(w, Cur(w).id)
    /\ cycles' = [cycles EXCEPT ![Cur(w).id] = IF d = "skipped" THEN @ ELSE @ + 1]
    /\ failedCycles' = [failedCycles EXCEPT ![Cur(w).id] = IF d = "failed" THEN @ + 1 ELSE @]
    /\ Spend(o)
    /\ IF d = "failed"
       THEN /\ messages' = IF o = "ok" THEN Normalise(MarkFailed(Cur(w).id, <<"send">>))
                           ELSE messages
            /\ IF op[w] = "retry"
               THEN Remark(w, IF o = "ok" THEN <<"webhook delivery failed", "send">>
                              ELSE <<"failed to mark message as failed", "store">>)
               ELSE Continue(w, count[w])
       ELSE /\ messages' = IF o = "ok" THEN Normalise(MarkSent(Cur(w).id)) ELSE messages
            /\ IF o = "ok"
               THEN IF cacheError(c) = NoError
                    THEN Continue(w, count[w] + 1)
                    ELSE IF op[w] = "retry"
                         THEN Remark(w, cacheError(c))
                         ELSE Continue(w, count[w])
               ELSE IF op[w] = "retry"
                    THEN Remark(w, <<"failed to mark message as sent", "store">>)
                    ELSE Continue(w, count[w])
    /\ UNCHANGED <<repoKind, webhookClient, rowLock, budget, limit>>

\* processMessage(ctx, message) for the message in hand
processMessage(w, d, o) ==
    \E c \in CacheOutcomes :
        /\ processMessageStore(w, d, o, c)
        /\ Cached(w, d, o, c)
        /\ UNCHANGED cache
        /\ UNCHANGED <<schedVars, hookVars, reply>>

\* RetryFailedMessages, on an error of processMessage: "Mark as failed again with
\* the new error": s.repo.MarkFailed(ctx, message.ID, err.Error()); continue
RetryMarkFailed(w, o) ==
    /\ pc[w] = "remark"
    /\ CanWrite(w, Cur(w).id)
    /\ Spend(o)
    /\ messages' = IF o = "ok" THEN Normalise(MarkFailed(Cur(w).id, err[w])) ELSE messages
    /\ Continue(w, count[w])
    /\ UNCHANGED <<repoKind, webhookClient, rowLock, budget, limit, cycles, failedCycles>>
    /\ UNCHANGED <<schedVars, hookVars, reply, cacheVars>>

NextStore ==
    \/ \E req \in Requests : CreateMessage(req)
    \/ \E w \in Workers, n \in 1..MaxBatch : ProcessUnsentMessages(w, n)
    \/ \E w \in Workers, n \in 1..MaxBatch : RetryFailedMessages(w, n)
    \/ \E w \in Workers : SelectUnsentForUpdateLock(w)
    \/ \E w \in Workers : SelectUnsentForUpdateCommit(w)
    \/ \E w \in Workers : SelectUnsentForUpdate(w)
    \/ \E w \in Workers : GetFailedMessages(w)
    \/ \E w \in Workers : FetchError(w)
    \/ \E w \in Workers : SkipNotRetryable(w)
    \/ \E w \in Workers : \E d \in SendOutcomes, o \in StoreOutcomes : processMessage(w, d, o)
    \/ \E w \in Workers : \E o \in StoreOutcomes : RetryMarkFailed(w, o)

(***************************************************************************)
(* scheduler.Scheduler: Start, Stop, IsRunning and the two loops           *)
(***************************************************************************)
Loops == {"process", "retry"}
Callers == 1..NumCallers
NoResult == [caller |-> 0, call |-> "none", val |-> "none"]

\* NewScheduler: not running, no context, no goroutine
InitSched ==
    /\ running = FALSE
    /\ ctx = "nil"
    /\ parent = "none"
    /\ parentDone = FALSE
    /\ mu = 0
    /\ wg = 0
    /\ loopPc = [l \in Loops |-> "none"]
    /\ tick = [l \in Loops |-> FALSE]
    /\ callerPc = [c \in Callers |-> "idle"]
    /\ result = NoResult
    /\ starts = 0

\* <-s.ctx.Done() can proceed: cancel() was called, or the parent context is done
Done == ctx = "cancelled" \/ (ctx = "active" /\ parentDone)

\* Start() with the running check removed; C10 does not hold of it
StartUnguarded(c, p) ==
    /\ callerPc[c] = "idle"
    /\ mu = 0
    /\ ctx' = "active"
    /\ parent' = p
    /\ parentDone' = FALSE
    /\ running' = TRUE
    /\ wg' = wg + 2
    /\ loopPc' = [l \in Loops |-> "select"]
    /\ tick' = [l \in Loops |-> FALSE]
    /\ result' = [caller |-> c, call |-> "Start", val |-> "ok"]
    /\ starts' = Min(starts + 1, MaxStarts)
    /\ UNCHANGED <<mu, callerPc>>
    /\ UNCHANGED <<storeVars, hookVars, reply, cacheVars>>

\* Start() that derives no new context when s.ctx is set; C39 does not hold of it
StartKeepsContext(c, p) ==
    /\ callerPc[c] = "idle"
    /\ mu = 0
    /\ IF running
       THEN /\ result' = [caller |-> c, call |-> "Start", val |-> "already running"]
            /\ UNCHANGED <<running, ctx, parent, parentDone, wg, loopPc, tick, starts>>
       ELSE /\ ctx' = IF ctx = "nil" THEN "active" ELSE ctx
            /\ parent' = IF ctx = "nil" THEN p ELSE parent
            /\ parentDone' = IF ctx = "nil" THEN FALSE ELSE parentDone
            /\ running' = TRUE
            /\ wg' = wg + 2
            /\ loopPc' = [l \in Loops |-> "select"]
            /\ tick' = [l \in Loops |-> FALSE]
            /\ result' = [caller |-> c, call |-> "Start", val |-> "ok"]
            /\ starts' = Min(starts + 1, MaxStarts)
    /\ UNCHANGED <<mu, callerPc>>
    /\ UNCHANGED <<storeVars, hookVars, reply, cacheVars>>

\* Start(ctx): under s.mu; fails if running, else a fresh context and two goroutines
Start(c, p) ==
    /\ callerPc[c] = "idle"
    /\ mu = 0
    /\ IF running
       THEN /\ result' = [caller |-> c, call |-> "Start", val |-> "already running"]
            /\ UNCHANGED <<running, ctx, parent, parentDone, wg, loopPc, tick, starts>>
       ELSE /\ ctx' = "active"
            /\ parent' = p
            /\ parentDone' = FALSE
            /\ running' = TRUE
            /\ wg' = wg + 2
            /\ loopPc' = [l \in Loops |-> "select"]
            /\ tick' = [l \in Loops |-> FALSE]
            /\ result' = [caller |-> c, call |-> "Start", val |-> "ok"]
            /\ starts' = Min(starts + 1, MaxStarts)
    /\ UNCHANGED <<mu, callerPc>>
    /\ UNCHANGED <<storeVars, hookVars, reply, cacheVars>>

\* Stop() with the running check removed; C11 does not hold of it
StopUnguarded(c) ==
    /\ callerPc[c] = "idle"
    /\ mu = 0
    /\ ctx' = "cancelled"
    /\ mu' = c
    /\ callerPc' = [callerPc EXCEPT ![c] = "stopping"]
    /\ result' = NoResult
    /\ UNCHANGED <<running, parent, parentDone, wg, loopPc, tick>>
    /\ UNCHANGED <<storeVars, hookVars, reply, cacheVars, starts>>

\* Stop() that waits for the goroutines with s.mu released; C34 does not hold of it
StopUnlocked(c) ==
    /\ callerPc[c] = "idle"
    /\ mu = 0
    /\ IF ~running
       THEN /\ result' = [caller |-> c, call |-> "Stop", val |-> "not running"]
            /\ UNCHANGED <<ctx, mu, callerPc>>
       ELSE /\ ctx' = "cancelled"
            /\ mu' = 0
            /\ callerPc' = [callerPc EXCEPT ![c] = "stopping"]
            /\ result' = NoResult
    /\ UNCHANGED <<running, parent, parentDone, wg, loopPc, tick>>
    /\ UNCHANGED <<storeVars, hookVars, reply, cacheVars, starts>>

\* Stop(), up to s.wg.Wait(): under s.mu; fails if not running, else s.cancel()
Stop(c) ==
    /\ callerPc[c] = "idle"
    /\ mu = 0
    /\ IF ~running
       THEN /\ result' = [caller |-> c, call |-> "Stop", val |-> "not running"]
            /\ UNCHANGED <<ctx, mu, callerPc>>
       ELSE /\ ctx' = "cancelled"
            /\ mu' = c
            /\ callerPc' = [callerPc EXCEPT ![c] = "stopping"]
            /\ result' = NoResult
    /\ UNCHANGED <<running, parent, parentDone, wg, loopPc, tick>>
    /\ UNCHANGED <<storeVars, hookVars, reply, cacheVars, starts>>

\* Stop() returning without s.wg.Wait(); C8 does not hold of it
StopReturnNoWait(c) ==
    /\ callerPc[c] = "stopping"
    /\ running' = FALSE
    /\ mu' = 0
    /\ callerPc' = [callerPc EXCEPT ![c] = "idle"]
    /\ result' = [caller |-> c, call |-> "Stop", val |-> "ok"]
    /\ UNCHANGED <<ctx, parent, parentDone, wg, loopPc, tick>>
    /\ UNCHANGED <<storeVars, hookVars, reply, cacheVars, starts>>

\* Stop(), from s.wg.Wait() on: both goroutines are done; running = false; unlock
StopReturn(c) ==
    /\ callerPc[c] = "stopping"
    /\ wg = 0
    /\ running' = FALSE
    /\ mu' = 0
    /\ callerPc' = [callerPc EXCEPT ![c] = "idle"]
    /\ result' = [caller |-> c, call |-> "Stop", val |-> "ok"]
    /\ UNCHANGED <<ctx, parent, parentDone, wg, loopPc, tick>>
    /\ UNCHANGED <<storeVars, hookVars, reply, cacheVars, starts>>

\* IsRunning(): s.running read under s.mu.RLock()
IsRunning(c) ==
    /\ callerPc[c] = "idle"
    /\ mu = 0
    /\ result' = [caller |-> c, call |-> "IsRunning",
                  val |-> IF running THEN "true" ELSE "false"]
    /\ UNCHANGED <<running, ctx, parent, parentDone, mu, wg, loopPc, tick, callerPc>>
    /\ UNCHANGED <<storeVars, hookVars, reply, cacheVars, starts>>

\* the context given to Start is done (an HTTP request context, once the handler
\* has returned); context.Background() never is
ParentDone ==
    /\ parent = "request" /\ ~parentDone
    /\ parentDone' = TRUE
    /\ result' = NoResult
    /\ UNCHANGED <<running, ctx, parent, mu, wg, loopPc, tick, callerPc>>
    /\ UNCHANGED <<storeVars, hookVars, reply, cacheVars, starts>>

\* the loop's time.Ticker fires; ticker.C holds one tick
Tick(l) ==
    /\ loopPc[l] \in {"select", "once"}
    /\ ~tick[l]
    /\ tick' = [tick EXCEPT ![l] = TRUE]
    /\ result' = NoResult
    /\ UNCHANGED <<running, ctx, parent, parentDone, mu, wg, loopPc, callerPc>>
    /\ UNCHANGED <<storeVars, hookVars, reply, cacheVars, starts>>

\* a loop returning without s.wg.Done(); C12 does not hold of it
LoopExitNoDone(l) ==
    /\ loopPc[l] = "select"
    /\ Done
    /\ loopPc' = [loopPc EXCEPT ![l] = "exited"]
    /\ tick' = [tick EXCEPT ![l] = FALSE]
    /\ result' = NoResult
    /\ UNCHANGED <<running, ctx, parent, parentDone, mu, wg, callerPc>>
    /\ UNCHANGED <<storeVars, hookVars, reply, cacheVars, starts>>

\* processMessages / retryFailedMessages, case <-s.ctx.Done(): return
\* (the deferred ticker.Stop() and s.wg.Done() run)
LoopExit(l) ==
    /\ loopPc[l] = "select"
    /\ Done
    /\ loopPc' = [loopPc EXCEPT ![l] = "exited"]
    /\ tick' = [tick EXCEPT ![l] = FALSE]
    /\ wg' = wg - 1
    /\ result' = NoResult
    /\ UNCHANGED <<running, ctx, parent, parentDone, mu, callerPc>>
    /\ UNCHANGED <<storeVars, hookVars, reply, cacheVars, starts>>

\* processMessages / retryFailedMessages, case <-ticker.C: processMessagesOnce() /
\* retryFailedMessagesOnce() begins its orchestrator call; when both cases of the
\* select can proceed Go picks either
LoopOnce(l) ==
    /\ loopPc[l] = "select"
    /\ tick[l]
    /\ loopPc' = [loopPc EXCEPT ![l] = "once"]
    /\ tick' = [tick EXCEPT ![l] = FALSE]
    /\ result' = NoResult
    /\ UNCHANGED <<running, ctx, parent, parentDone, mu, wg, callerPc>>
    /\ UNCHANGED <<storeVars, hookVars, reply, cacheVars, starts>>

\* processMessagesOnce / retryFailedMessagesOnce returns: the orchestrator call
\* returned nil or an error (e), which is only logged; the loop selects again
OnceReturn(l, e) ==
    /\ loopPc[l] = "once"
    /\ loopPc' = [loopPc EXCEPT ![l] = "select"]
    /\ result' = [caller |-> 0, call |-> l, val |-> IF e THEN "error" ELSE "ok"]
    /\ UNCHANGED <<running, ctx, parent, parentDone, mu, wg, tick, callerPc>>
    /\ UNCHANGED <<storeVars, hookVars, reply, cacheVars, starts>>

NextSched ==
    \/ \E c \in Callers, p \in {"background", "request"} : Start(c, p)
    \/ \E c \in Callers : Stop(c)
    \/ \E c \in Callers : StopReturn(c)
    \/ \E c \in Callers : IsRunning(c)
    \/ ParentDone
    \/ \E l \in Loops : Tick(l)
    \/ \E l \in Loops : LoopExit(l)
    \/ \E l \in Loops : LoopOnce(l)
    \/ \E l \in Loops, e \in BOOLEAN : OnceReturn(l, e)

(***************************************************************************)
(* webhookClient.SendMessage: one call, its HTTP attempts and the retry    *)
(* loop of retry.Do around them.  Time passes only where the call blocks:  *)
(* inside httpClient.Do and on the backoff timer.                          *)
(***************************************************************************)
SendMaxRetries == 2       \* retry.WithMaxRetries(2, backoff)

StatusCodes == {101, 200, 202, 204, 302, 400, 404, 500, 503}

\* what httpClient.Do(req) can end in: a response, or an error; bodyErr is the
\* error of io.ReadAll(resp.Body), which sendHTTPRequest discards
Response(c) == [err |-> "none", code |-> c, bodyErr |-> FALSE]
TransportError == [err |-> "transport", code |-> 0, bodyErr |-> FALSE]
DeadlineExceeded == [err |-> "deadline", code |-> 0, bodyErr |-> FALSE]
NoResponse == [err |-> "none", code |-> 0, bodyErr |-> FALSE]
Outcomes == {Response(c) : c \in StatusCodes} \cup {TransportError}

InitHook ==
    /\ hookPc = "idle"
    /\ resp = NoResponse
    /\ url = ""
    /\ responses = <<>>
    /\ retries = 0
    /\ ctxDone = FALSE
    /\ entryExpired = FALSE
    /\ capReached = FALSE
    /\ hookResult = "none"

\* sendHTTPRequest with every 4xx answer retried; C21 does not hold of it
sendHTTPRequestRetry4xx(o) ==
    IF o.err # "none" THEN "retryable"
    ELSE IF o.code = 202 THEN "nil"
    ELSE IF o.code >= 400 THEN "retryable"
    ELSE IF o.code >= 200 /\ o.code < 300 THEN "nil"
    ELSE "error"

\* sendHTTPRequest that accepts 202 only and retries other 2xx; C24 does not hold of it
sendHTTPRequestOnly202(o) ==
    IF o.err # "none" THEN "retryable"
    ELSE IF o.code = 202 THEN "nil"
    ELSE IF o.code >= 400 /\ o.code < 500 THEN "error"
    ELSE IF o.code >= 500 THEN "retryable"
    ELSE IF o.code >= 200 /\ o.code < 300 THEN "retryable"
    ELSE "error"

\* sendHTTPRequest with the statuses outside 2xx, 4xx and 5xx retried; C40 does not
\* hold of it
sendHTTPRequestRetryOther(o) ==
    IF o.err # "none" THEN "retryable"
    ELSE IF o.code = 202 THEN "nil"
    ELSE IF o.code >= 400 /\ o.code < 500 THEN "error"
    ELSE IF o.code >= 500 THEN "retryable"
    ELSE IF o.code >= 200 /\ o.code < 300 THEN "nil"
    ELSE "retryable"

\* sendHTTPRequest: nil, a plain error, or a retry.RetryableError
sendHTTPRequest(o) ==
    IF o.err # "none" THEN "retryable"
    ELSE IF o.code = 202 THEN "nil"
    ELSE IF o.code >= 400 /\ o.code < 500 THEN "error"
    ELSE IF o.code >= 500 THEN "retryable"
    ELSE IF o.code >= 200 /\ o.code < 300 THEN "nil"
    ELSE "error"

\* the error sendHTTPRequest builds from the outcome
ErrorOf(o) ==
    IF o.err = "deadline" THEN "context deadline exceeded"
    ELSE IF o.err = "transport" THEN "HTTP request failed"
    ELSE IF o.code >= 400 THEN "webhook delivery failed"
    ELSE "unexpected status"

HookReturn(v) == hookPc' = "idle" /\ hookResult' = v

\* the head of the loop without the context check; C26 does not hold of it
DoLoopNoCheck(done) == hookPc' = "attempt" /\ hookResult' = "none"

\* retry.Do, head of the loop: return ctx.Err() if ctx is done, else call f(ctx)
DoLoop(done) ==
    IF done THEN HookReturn("context deadline exceeded")
    ELSE hookPc' = "attempt" /\ hookResult' = "none"

\* SendMessage with no check of the endpoint; C25 does not hold of it
SendMessageAnyURL(u, expired) ==
    /\ hookPc = "idle"
    /\ url' = u
    /\ entryExpired' = expired
    /\ ctxDone' = expired
    /\ capReached' = FALSE
    /\ responses' = <<>>
    /\ retries' = 0
    /\ DoLoop(expired)
    /\ UNCHANGED <<resp, storeVars, schedVars, reply, cacheVars>>

\* SendMessage(ctx, message) up to the first call of f
SendMessage(u, expired) ==
    /\ hookPc = "idle"
    /\ url' = u
    /\ entryExpired' = expired
    /\ ctxDone' = expired
    /\ capReached' = FALSE
    /\ responses' = <<>>
    /\ retries' = 0
    /\ IF u = "" THEN HookReturn("nil") ELSE DoLoop(expired)
    /\ UNCHANGED <<resp, storeVars, schedVars, reply, cacheVars>>

\* b.Next() that allows one retry only; C22 does not hold of it
BackoffNextOneRetry(o) ==
    IF capReached \/ retries >= 1
    THEN HookReturn(ErrorOf(o)) /\ retries' = retries
    ELSE /\ retries' = retries + 1
         /\ IF ctxDone THEN HookReturn("context deadline exceeded")
            ELSE hookPc' = "wait" /\ hookResult' = "none"

\* b.Next() that never stops on the number of retries; C23 does not hold of it
BackoffNextUnbounded(o) ==
    IF capReached
    THEN HookReturn(ErrorOf(o)) /\ retries' = retries
    ELSE /\ retries' = retries
         /\ IF ctxDone THEN HookReturn("context deadline exceeded")
            ELSE hookPc' = "wait" /\ hookResult' = "none"

\* retry.Do after a retryable error: next, stop := b.Next() with b =
\* Jitter(MaxDuration(MaxRetries(Exponential))); stop -> the unwrapped error;
\* ctx done -> ctx.Err(); else wait on the timer
BackoffNext(o) ==
    IF capReached \/ retries >= SendMaxRetries
    THEN HookReturn(ErrorOf(o)) /\ retries' = retries
    ELSE /\ retries' = retries + 1
         /\ IF ctxDone THEN HookReturn("context deadline exceeded")
            ELSE hookPc' = "wait" /\ hookResult' = "none"

\* f(ctx) ends with outcome o and retry.Do acts on its error
AttemptEnd(o) ==
    /\ responses' = Append(responses, o)
    /\ resp' = NoResponse
    /\ IF sendHTTPRequest(o) = "nil" THEN HookReturn("nil") /\ retries' = retries
       ELSE IF sendHTTPRequest(o) = "error"
       THEN HookReturn(ErrorOf(o)) /\ retries' = retries
       ELSE BackoffNext(o)

\* resp, err := w.httpClient.Do(req): an error ends the attempt, a response is read
\* next; a context past its deadline makes Do return that error
HttpDo(o) ==
    /\ hookPc = "attempt"
    /\ o \in (IF ctxDone THEN {DeadlineExceeded} ELSE Outcomes)
    /\ IF o.err = "none"
       THEN /\ hookPc' = "body"
            /\ resp' = o
            /\ UNCHANGED <<responses, retries, hookResult>>
       ELSE AttemptEnd(o)
    /\ UNCHANGED <<url, ctxDone, entryExpired, capReached>>
    /\ UNCHANGED <<storeVars, schedVars, reply, cacheVars>>

\* body, _ := io.ReadAll(resp.Body): the read fails when the deadline passes during
\* it; either way the status code decides
ReadAll(e) ==
    /\ hookPc = "body"
    /\ e \in (IF ctxDone THEN {TRUE} ELSE BOOLEAN)
    /\ AttemptEnd([resp EXCEPT !.bodyErr = e])
    /\ UNCHANGED <<url, ctxDone, entryExpired, capReached>>
    /\ UNCHANGED <<storeVars, schedVars, reply, cacheVars>>

\* case <-t.C: continue
WaitTimer ==
    /\ hookPc = "wait"
    /\ DoLoop(ctxDone)
    /\ UNCHANGED <<resp, url, responses, retries, ctxDone, entryExpired, capReached>>
    /\ UNCHANGED <<storeVars, schedVars, reply, cacheVars>>

\* case <-ctx.Done(): t.Stop(); return ctx.Err()
WaitCancelled ==
    /\ hookPc = "wait"
    /\ ctxDone
    /\ HookReturn("context deadline exceeded")
    /\ UNCHANGED <<resp, url, responses, retries, ctxDone, entryExpired, capReached>>
    /\ UNCHANGED <<storeVars, schedVars, reply, cacheVars>>

\* the deadline of ctx passes while the call is blocked
DeadlinePasses ==
    /\ hookPc \in {"attempt", "body", "wait"}
    /\ ~ctxDone
    /\ ctxDone' = TRUE
    /\ UNCHANGED <<hookPc, resp, url, responses, retries, entryExpired, capReached,
                   hookResult>>
    /\ UNCHANGED <<storeVars, schedVars, reply, cacheVars>>

\* config.BackoffMax elapses since the backoff was built (retry.WithMaxDuration)
BackoffMaxElapses ==
    /\ hookPc \in {"attempt", "body", "wait"}
    /\ ~capReached
    /\ capReached' = TRUE
    /\ UNCHANGED <<hookPc, resp, url, responses, retries, ctxDone, entryExpired,
                   hookResult>>
    /\ UNCHANGED <<storeVars, schedVars, reply, cacheVars>>

NextHook ==
    \/ \E u \in {"", "u"}, expired \in BOOLEAN : SendMessage(u, expired)
    \/ \E o \in Outcomes \cup {DeadlineExceeded} : HttpDo(o)
    \/ \E e \in BOOLEAN : ReadAll(e)
    \/ WaitTimer
    \/ WaitCancelled
    \/ DeadlinePasses
    \/ BackoffMaxElapses

(***************************************************************************)
(* MessageRepository called directly (both repositories), with any id and  *)
(* any request: the contract of the store on its own.                      *)
(***************************************************************************)
NoReply == [call |-> "none", id |-> 0, err |-> "nil", before |-> "none", maxRetries |-> 0]

\* the ids a caller passes: every stored id and one that is not stored
SomeIds == 1..(MaxMsgs + 1)

StatusOf(i) == IF i \in Ids THEN messages[i].status ELSE "none"

\* r.Create(ctx, req)
RepoCreate(req) ==
    /\ Len(messages) < MaxMsgs
    /\ messages' = Create(req)
    /\ rowLock' = Append(rowLock, NoWorker)
    /\ cycles' = Append(cycles, 0)
    /\ failedCycles' = Append(failedCycles, 0)
    /\ reply' = [call |-> "Create", id |-> Len(messages) + 1, err |-> "nil",
                 before |-> "none", maxRetries |-> req.max_retries]
    /\ UNCHANGED <<repoKind, webhookClient, faults, budget, pc, op, limit, batch, idx,
                   err, count, overlap, ret>>
    /\ UNCHANGED <<schedVars, hookVars, cacheVars>>

\* r.MarkSent(ctx, messageID)
RepoMarkSent(i) ==
    /\ budget > 0
    /\ budget' = budget - 1
    /\ messages' = Normalise(MarkSent(i))
    /\ reply' = [call |-> "MarkSent", id |-> i, err |-> NotFound(i),
                 before |-> StatusOf(i), maxRetries |-> 0]
    /\ UNCHANGED <<repoKind, webhookClient, rowLock, faults, pc, op, limit,
                   batch, idx, err, count, overlap, ret, cycles, failedCycles>>
    /\ UNCHANGED <<schedVars, hookVars, cacheVars>>

\* r.MarkFailed(ctx, messageID, errorMsg)
RepoMarkFailed(i) ==
    /\ budget > 0
    /\ budget' = budget - 1
    /\ messages' = Normalise(MarkFailed(i, <<"e">>))
    /\ reply' = [call |-> "MarkFailed", id |-> i, err |-> NotFound(i),
                 before |-> StatusOf(i), maxRetries |-> 0]
    /\ UNCHANGED <<repoKind, webhookClient, rowLock, faults, pc, op, limit,
                   batch, idx, err, count, overlap, ret, cycles, failedCycles>>
    /\ UNCHANGED <<schedVars, hookVars, cacheVars>>

\* r.GetByID(ctx, messageID)
RepoGetByID(i) ==
    /\ reply' = [call |-> "GetByID", id |-> i,
                 err |-> IF GetByID(i).found THEN "nil" ELSE "not found",
                 before |-> StatusOf(i), maxRetries |-> 0]
    /\ UNCHANGED <<repoKind, webhookClient, messages, rowLock, faults, budget, pc, op,
                   limit, batch, idx, err, count, overlap, ret, cycles, failedCycles>>
    /\ UNCHANGED <<schedVars, hookVars, cacheVars>>

\* r.GetSentMessages(ctx, offset, limit)
RepoGetSentMessages(offset, lim) ==
    /\ \E res \in GetSentMessages(offset, lim) :
          reply' = [call |-> "GetSentMessages", id |-> 0, err |-> "nil",
                    before |-> "none", maxRetries |-> 0, offset |-> offset,
                    limit |-> lim, records |-> res.records, total |-> res.total]
    /\ UNCHANGED <<repoKind, webhookClient, messages, rowLock, faults, budget, pc, op,
                   limit, batch, idx, err, count, overlap, ret, cycles, failedCycles>>
    /\ UNCHANGED <<schedVars, hookVars, cacheVars>>

NextRepo ==
    \/ \E req \in {r \in Requests : Valid(r)} : RepoCreate(req)
    \/ \E i \in SomeIds : RepoMarkSent(i)
    \/ \E i \in SomeIds : RepoMarkFailed(i)
    \/ \E i \in SomeIds : RepoGetByID(i)

\* the listing of sent messages, between writes of the store; max_retries plays no
\* part in the listing and is left to its default
NextList ==
    \/ \E req \in {r \in Requests : Valid(r) /\ r.max_retries = 0} : RepoCreate(req)
    \/ \E i \in SomeIds : RepoMarkSent(i)
    \/ \E i \in SomeIds : RepoMarkFailed(i)
    \/ \E offset \in 0..(MaxMsgs + 1), lim \in 0..MaxBatch :
          RepoGetSentMessages(offset, lim)

(***************************************************************************)
(* Specifications                                                          *)
(***************************************************************************)
\* the service no cache is wired into
NoCache == cache = FALSE /\ cached = {}

Init == InitStore /\ InitSched /\ InitHook /\ reply = NoReply /\ NoCache

\* one worker, with or without a cache; the rows GetFailedMessages hands to a
\* lone worker all pass CanRetry when their turn comes, so the `continue` of
\* RetryFailedMessages (SkipNotRetryable) has no step here
InitOne ==
    /\ InitStore /\ InitSched /\ InitHook /\ reply = NoReply
    /\ cache \in BOOLEAN
    /\ cached = {}

NextOne ==
    \/ \E req \in Requests : CreateMessage(req)
    \/ \E n \in 1..MaxBatch : ProcessUnsentMessages(1, n)
    \/ \E n \in 1..MaxBatch : RetryFailedMessages(1, n)
    \/ SelectUnsentForUpdateLock(1)
    \/ SelectUnsentForUpdateCommit(1)
    \/ SelectUnsentForUpdate(1)
    \/ GetFailedMessages(1)
    \/ FetchError(1)
    \/ \E d \in SendOutcomes, o \in StoreOutcomes : processMessage(1, d, o)
    \/ \E o \in StoreOutcomes : RetryMarkFailed(1, o)

Next == NextStore

Spec == Init /\ [][Next]_vars

SpecOne == InitOne /\ [][NextOne]_vars

(***************************************************************************)
(* The scheduler driving the orchestrator: the processing loop and the     *)
(* retry loop as the two workers of one store whose operations succeed.    *)
(***************************************************************************)
\* the goroutine of a loop, as a worker of the orchestrator
LoopWorker(l) == IF l = "process" THEN 1 ELSE 2

InitLive ==
    /\ repoKind \in {"postgres", "memory"}
    /\ webhookClient \in BOOLEAN
    /\ messages = <<>>
    /\ rowLock = <<>>
    /\ faults = 0
    /\ pc = [w \in Workers |-> "idle"]
    /\ op = [w \in Workers |-> "none"]
    /\ limit = [w \in Workers |-> 0]
    /\ batch = [w \in Workers |-> <<>>]
    /\ idx = [w \in Workers |-> 0]
    /\ err = [w \in Workers |-> NoError]
    /\ count = [w \in Workers |-> 0]
    /\ ret = NoReturn
    /\ budget = MaxCalls
    /\ overlap = [w \in Workers |-> {}]
    /\ cycles = <<>>
    /\ failedCycles = <<>>
    /\ InitSched /\ InitHook /\ reply = NoReply /\ NoCache

\* case <-ticker.C: processMessagesOnce() calls ProcessPendingMessages, that is
\* ProcessUnsentMessages(ctx, defaultBatchSize); retryFailedMessagesOnce() calls
\* RetryFailedMessages likewise.  n is the batch size: defaultBatchSize, or 1 for
\* a store that holds more eligible messages than one batch takes
Invoke(l, n) ==
    /\ loopPc[l] = "select"
    /\ tick[l]
    /\ pc[LoopWorker(l)] = "idle"
    /\ loopPc' = [loopPc EXCEPT ![l] = "once"]
    /\ tick' = [tick EXCEPT ![l] = FALSE]
    /\ result' = NoResult
    /\ pc' = [pc EXCEPT ![LoopWorker(l)] = "select"]
    /\ op' = [op EXCEPT ![LoopWorker(l)] = l]
    /\ limit' = [limit EXCEPT ![LoopWorker(l)] = n]
    /\ ret' = NoReturn
    /\ UNCHANGED <<repoKind, webhookClient, messages, rowLock, faults, budget, batch, idx,
                   err, count, overlap, cycles, failedCycles>>
    /\ UNCHANGED <<running, ctx, parent, parentDone, mu, wg, callerPc, starts>>
    /\ UNCHANGED <<hookVars, reply, cacheVars>>

\* the orchestrator call of the loop has returned; so does processMessagesOnce /
\* retryFailedMessagesOnce
InvokeReturn(l) ==
    /\ pc[LoopWorker(l)] = "idle"
    /\ OnceReturn(l, FALSE)

\* a step of the orchestrator call a loop has in flight
Work(w) ==
    \/ SelectUnsentForUpdateLock(w)
    \/ SelectUnsentForUpdateCommit(w)
    \/ SelectUnsentForUpdate(w)
    \/ GetFailedMessages(w)
    \/ \E d \in SendOutcomes, o \in StoreOutcomes : processMessage(w, d, o)
    \/ \E o \in StoreOutcomes : RetryMarkFailed(w, o)

\* the requests of the callers: valid, asking for few retries or for one retry more
LiveRequests ==
    {[recipient |-> "r", content |-> "c", webhook_url |-> "u", max_retries |-> m] :
        m \in 1..(MaxRetriesReq + 1)}

NextLive ==
    \/ \E req \in LiveRequests : CreateMessage(req)
    \/ ~running /\ Start(1, "background")
    \/ \E l \in Loops : Tick(l)
    \/ \E l \in Loops, n \in {1, DefaultBatchSize} : Invoke(l, n)
    \/ \E l \in Loops : InvokeReturn(l)
    \/ \E l \in Loops : SelectUnsentForUpdateLock(LoopWorker(l))
    \/ \E l \in Loops : SelectUnsentForUpdateCommit(LoopWorker(l))
    \/ \E l \in Loops : SelectUnsentForUpdate(LoopWorker(l))
    \/ \E l \in Loops : GetFailedMessages(LoopWorker(l))
    \/ \E l \in Loops : \E d \in SendOutcomes, o \in StoreOutcomes :
          processMessage(LoopWorker(l), d, o)
    \/ \E l \in Loops : \E o \in StoreOutcomes : RetryMarkFailed(LoopWorker(l), o)

\* the scheduler stays Running (nobody calls Stop, the context given to Start is
\* never done), each ticker keeps firing, a loop at its select takes the tick, and
\* every store and Delivery Client call of an orchestrator call returns
FairLive ==
    /\ \A l \in Loops : WF_vars(Tick(l))
    /\ \A l \in Loops : WF_vars(\E n \in {1, DefaultBatchSize} : Invoke(l, n))
    /\ \A l \in Loops : WF_vars(InvokeReturn(l))
    /\ \A l \in Loops : WF_vars(Work(LoopWorker(l)))

SpecLive == InitLive /\ [][NextLive]_vars /\ FairLive

SpecSched == Init /\ [][NextSched]_vars

SpecHook == Init /\ [][NextHook]_vars

SpecRepo == Init /\ [][NextRepo]_vars

SpecList == Init /\ [][NextList]_vars

\* the scheduler with its goroutines scheduled fairly: each ticker keeps firing, a
\* select that is ready again and again takes each ready case eventually (Go picks
\* among ready cases at random), an orchestrator call in flight returns, and a
\* Stop() whose wg.Wait() can return does return
FairSched ==
    /\ \A l \in Loops : WF_vars(Tick(l))
    /\ \A l \in Loops : SF_vars(LoopOnce(l))
    /\ \A l \in Loops : SF_vars(LoopExit(l))
    /\ \A l \in Loops : WF_vars(\E e \in BOOLEAN : OnceReturn(l, e))
    /\ \A c \in Callers : WF_vars(StopReturn(c))

SpecSchedFair == Init /\ [][NextSched]_vars /\ FairSched

(***************************************************************************)
(* Properties                                                              *)
(***************************************************************************)
\* the messages a worker has received from its fetch and not yet written the
\* outcome of (the one in hand and the rest of its batch)
InHand(w) ==
    IF pc[w] \in {"loop", "remark"}
    THEN {batch[w][k].id : k \in idx[w]..Len(batch[w])}
    ELSE {}

Terminal(m) == m.status = "failed" /\ m.retry_count >= m.max_retries

LegalTransition(a, b) ==
    \/ a = b
    \/ a = "pending" /\ b \in {"sent", "failed"}
    \/ a = "failed" /\ b = "sent"

\* C1: the sets of messages returned to concurrent SelectUnsentForUpdate calls
\* (calls that overlapped in time) are pairwise disjoint, and their union is no
\* larger than the set of messages there are.
C1_ClaimExclusivity ==
    \A w \in Workers, v \in Workers :
        (/\ w # v /\ v \in overlap[w]
         /\ op[w] = "process" /\ op[v] = "process"
         /\ pc[w] \in {"loop", "remark"} /\ pc[v] \in {"loop", "remark"})
        => /\ BatchIds(w) \cap BatchIds(v) = {}
           /\ Cardinality(BatchIds(w) \cup BatchIds(v)) <= Len(messages)

\* C2: from the moment a worker's ProcessUnsentMessages receives a message from
\* SelectUnsentForUpdate until it has written the outcome, no other worker's
\* ProcessUnsentMessages holds the same message.
C2_OneWorkerAtATime ==
    \A w \in Workers, v \in Workers :
        (w # v /\ op[w] = "process" /\ op[v] = "process")
        => InHand(w) \cap InHand(v) = {}

\* C3: a message fetched by the processing loop (ProcessUnsentMessages) is not
\* fetched by the retry loop (RetryFailedMessages) before its outcome is written,
\* and conversely.
C3_ProcessAndRetryDisjoint ==
    \A w \in Workers, v \in Workers :
        (op[w] = "process" /\ op[v] = "retry")
        => InHand(w) \cap InHand(v) = {}

\* C4: a message that is failed with retry_count >= max_retries is never again
\* returned by a fetch and never again handed to the Delivery Client.
C4_TerminalIsFinal ==
    [][\A i \in Ids :
          Terminal(messages[i])
          => /\ cycles'[i] = cycles[i]
             /\ \A w \in Workers :
                   (pc[w] \in {"select", "locked"} /\ pc'[w] = "loop")
                   => \A k \in 1..Len(batch'[w]) : batch'[w][k].id # i]_vars

\* C5: the only status transitions are pending->sent, pending->failed,
\* failed->failed and failed->sent; status never leaves sent.
C5_LegalTransitions ==
    [][\A i \in Ids : LegalTransition(messages[i].status, messages'[i].status)]_vars

\* C6: every failed delivery cycle adds exactly 1 to the stored retry_count and
\* leaves the message failed: with no store error and nobody holding the message,
\* retry_count equals the number of failed cycles, and a message whose cycles all
\* failed is in status failed.
C6_FailedCycleCountsOnce ==
    \A i \in Ids :
        (faults = MaxFaults /\ \A w \in Workers : i \notin InHand(w))
        => /\ messages[i].retry_count = failedCycles[i]
           /\ (failedCycles[i] > 0 /\ cycles[i] = failedCycles[i])
              => messages[i].status = "failed"

\* C7: no message gets more than 1 + max_retries delivery cycles.
C7_BoundedCycles ==
    \A i \in Ids : cycles[i] <= 1 + messages[i].max_retries

\* C8: once Stop() has returned after a Start(), IsRunning() is false, both loops
\* have exited, and no orchestrator call begins (until a later Start()).
C8_StopStopsTheLoops ==
    [][/\ (result'.call = "Stop" /\ result'.val = "ok")
          => (~running' /\ \A l \in Loops : loopPc'[l] = "exited")
       /\ (~running /\ ctx # "nil")
          => \A l \in Loops : loopPc[l] = "exited" /\ loopPc'[l] # "once"]_vars

C8_Witness ==
    /\ result.call = "Stop" /\ result.val = "ok"
    /\ ~running /\ ctx = "cancelled"
    /\ \A l \in Loops : loopPc[l] = "exited"

\* C9: once Stop() has cancelled the shared context, neither loop begins a new
\* processMessagesOnce / retryFailedMessagesOnce, even with a tick pending.
C9_NoNewWorkAfterCancel ==
    [][\A l \in Loops :
          (ctx = "cancelled" /\ loopPc[l] = "select") => loopPc'[l] # "once"]_vars

\* C10: Start() on a Running scheduler fails with "already running" and changes
\* nothing: still running, same context, no goroutine added.
C10_StartWhileRunning ==
    [][(result'.call = "Start" /\ running)
       => /\ result'.val = "already running"
          /\ running'
          /\ UNCHANGED <<ctx, parent, parentDone, wg, loopPc, tick, mu, callerPc>>]_vars

C10_Witness ==
    /\ result.call = "Start" /\ result.val = "already running"
    /\ running /\ wg = 2


\* C11: Stop() on a Stopped scheduler (never started, or already stopped) fails
\* with "not running" and leaves it Stopped: nothing is cancelled, nobody waits.
C11_StopWhileStopped ==
    [][~running
       => /\ \A c \in Callers : callerPc'[c] # "stopping"
          /\ (ctx' = "cancelled" => ctx = "cancelled")
          /\ (result'.call = "Stop")
             => /\ result'.val = "not running"
                /\ ~running'
                /\ UNCHANGED <<ctx, parent, parentDone, wg, loopPc, tick, mu, callerPc>>]_vars

C11_Witness ==
    /\ result.call = "Stop" /\ result.val = "not running"
    /\ ~running /\ ctx = "cancelled" /\ wg = 0

\* C12: a Stop() call on a Running scheduler eventually returns, with the
\* scheduler Stopped, both loops exited and the mutex released.
C12_StopReturns ==
    (\E c \in Callers : callerPc[c] = "stopping")
        ~> (/\ result.call = "Stop" /\ result.val = "ok"
            /\ ~running /\ mu = 0
            /\ \A l \in Loops : loopPc[l] = "exited")

C12_Witness ==
    /\ result.call = "Stop" /\ result.val = "ok"
    /\ mu = 0 /\ wg = 0
    /\ \A c \in Callers : callerPc[c] = "idle"

\* C13: while the scheduler stays Running each loop keeps invoking its
\* orchestrator method, whatever earlier invocations returned: for each loop,
\* again and again either the scheduler is not Running or an invocation begins.
C13_LoopsKeepInvoking ==
    \A l \in Loops : []<>(~running \/ loopPc[l] = "once")


\* C14: ProcessUnsentMessages isolates per-message faults: whatever happens to the
\* message in hand (delivery failure, store-update failure), the loop goes on to
\* the next message of the batch, and after the last one the call returns a nil
\* error and the number of messages of the batch whose processing ended in sent.
C14_FaultIsolation ==
    [][\A w \in Workers :
          (op[w] = "process" /\ pc[w] = "loop" /\ <<pc'[w], idx'[w]>> # <<pc[w], idx[w]>>)
          => LET i == Cur(w).id
                 sent == /\ messages'[i].status = "sent"
                         /\ faults' = faults
                         /\ failedCycles'[i] = failedCycles[i]
                 n == count[w] + (IF sent THEN 1 ELSE 0)
             IN IF idx[w] < Len(batch[w])
                THEN /\ pc'[w] = "loop" /\ idx'[w] = idx[w] + 1
                     /\ batch'[w] = batch[w] /\ count'[w] = n
                ELSE /\ pc'[w] = "idle"
                     /\ ret' = [w |-> w, n |-> n, err |-> FALSE]]_vars

C14_Witness ==
    /\ ret.w # NoWorker /\ ret.err = FALSE /\ ret.n = 1
    /\ budget = MaxCalls - 1
    /\ Len(messages) = 2 /\ cycles = <<1, 1>>
    /\ messages[1].status = "failed" /\ messages[2].status = "sent"

\* C15: when the batch fetch fails, ProcessUnsentMessages / RetryFailedMessages
\* returns count 0 and an error, delivers nothing and changes no message.
C15_FetchFailure ==
    [][\A w \in Workers :
          (pc[w] = "select" /\ pc'[w] # "select" /\ faults' # faults)
          => /\ pc'[w] = "idle"
             /\ ret' = [w |-> w, n |-> 0, err |-> TRUE]
             /\ UNCHANGED <<messages, cycles, failedCycles>>]_vars

C15_Witness ==
    /\ ret.w # NoWorker /\ ret.err = TRUE /\ ret.n = 0
    /\ \E i \in Ids : messages[i].status = "pending" /\ cycles[i] = 0

\* C16: a message with status failed has failed_at set and error_message set,
\* with both repositories.
C16_FailedHasStampAndError ==
    \A i \in Ids :
        messages[i].status = "failed"
        => messages[i].failed_at # NULL /\ messages[i].error_message # NoError

\* C17: a message with status sent has sent_at set.
C17_SentHasStamp ==
    \A i \in Ids : messages[i].status = "sent" => messages[i].sent_at # NULL

C17_Witness ==
    \E i \in Ids : messages[i].status = "sent" /\ messages[i].sent_at # NULL

\* C18: MarkFailed(id, errorMessage) on an existing message sets status failed,
\* adds exactly 1 to retry_count, overwrites error_message with the given text and
\* leaves every other message as it was.
C18_MarkFailedIncrements ==
    \A i \in Ids, e \in {<<"send">>, <<"other">>} :
        LET after == MarkFailed(i, e)
        IN /\ Len(after) = Len(messages)
           /\ after[i].status = "failed"
           /\ after[i].retry_count = messages[i].retry_count + 1
           /\ after[i].error_message = e
           /\ \A j \in Ids \ {i} : after[j] = messages[j]

C18_Witness ==
    \E i \in Ids :
        /\ messages[i].status = "failed" /\ messages[i].retry_count = 3
        /\ messages[i].error_message = <<"webhook delivery failed", "send">>

\* C19: SelectUnsentForUpdate(limit) returns the oldest-created limit messages
\* among the eligible unlocked ones (pending, or failed with retries left), with
\* both repositories.
C19_SelectOldestEligible ==
    [][\A w \in Workers :
          (op[w] = "process" /\ pc[w] = "select" /\ pc'[w] # "select" /\ faults' = faults)
          => LET free == {i \in Ids : Unsent(messages[i]) /\ rowLock[i] = NoWorker}
                 got == [k \in 1..Len(batch'[w]) |-> batch'[w][k].id]
             IN got = Take(ByCreatedAt(free), limit[w])]_vars

\* C20: no message is dropped: every message stays in the store as created, and a
\* message that has exhausted max_retries stays retrievable by GetByID in status
\* failed with an error_message.
C20_NothingDropped ==
    [][\A i \in Ids :
          /\ GetByID(i)'.found
          /\ GetByID(i)'.message.recipient = messages[i].recipient
          /\ GetByID(i)'.message.content = messages[i].content
          /\ GetByID(i)'.message.webhook_url = messages[i].webhook_url
          /\ Terminal(messages[i])
             => /\ GetByID(i)'.message.status = "failed"
                /\ GetByID(i)'.message.error_message # NoError]_vars

(***************************************************************************)
(* Delivery client (SpecHook)                                              *)
(***************************************************************************)
Returned == hookPc = "idle" /\ hookResult # "none"
Attempts == Len(responses)
Is2xx(o) == o.err = "none" /\ o.code >= 200 /\ o.code < 300
Is4xx(o) == o.err = "none" /\ o.code >= 400 /\ o.code < 500
Is5xx(o) == o.err = "none" /\ o.code >= 500
Retryable(o) == Is5xx(o) \/ o.err # "none"

\* C21: an attempt answered 4xx is the last attempt of the call: SendMessage has
\* returned the delivery error and made no retry; when the first attempt is
\* answered 4xx the call made exactly 1 attempt.
C21_ClientErrorIsTerminal ==
    \A k \in 1..Attempts :
        Is4xx(responses[k]) =>
            /\ k = Attempts
            /\ Returned
            /\ hookResult = "webhook delivery failed"
            /\ (Is4xx(responses[1]) => Attempts = 1)

C21_Witness ==
    Returned /\ responses = <<Response(404)>> /\ hookResult = "webhook delivery failed"

\* C22: when the first two attempts are answered 5xx and neither the duration cap
\* nor the deadline is reached, a 3rd attempt is made; when that 3rd attempt is
\* answered 202 the call returns nil, having made exactly 3 attempts.
C22_SuccessOnThirdAttempt ==
    /\ (/\ Returned /\ Attempts >= 2
        /\ Is5xx(responses[1]) /\ Is5xx(responses[2])
        /\ ~capReached /\ ~ctxDone)
       => Attempts = 3
    /\ (/\ Attempts >= 3
        /\ Is5xx(responses[1]) /\ Is5xx(responses[2])
        /\ responses[3].err = "none" /\ responses[3].code = 202)
       => (Returned /\ hookResult = "nil" /\ Attempts = 3)

C22_Witness ==
    /\ Returned /\ hookResult = "nil"
    /\ responses = <<Response(500), Response(503), Response(202)>>

\* C23: a call never makes more than 3 attempts; a returned call whose attempts all
\* ended in a retryable outcome, with neither the duration cap nor the deadline
\* reached, made exactly 3 attempts and returned the last error.
C23_AtMostThreeAttempts ==
    /\ Attempts <= 3
    /\ (/\ Returned /\ Attempts >= 1
        /\ \A k \in 1..Attempts : Retryable(responses[k])
        /\ ~capReached /\ ~ctxDone)
       => /\ Attempts = 3
          /\ hookResult = ErrorOf(responses[3])
          /\ hookResult \in {"webhook delivery failed", "HTTP request failed"}

C23_Witness ==
    /\ Returned /\ ~capReached /\ ~ctxDone
    /\ responses = <<Response(500), TransportError, Response(503)>>
    /\ hookResult = "webhook delivery failed"

\* C24: an attempt answered 202 or any other 2xx is the last attempt of the call and
\* SendMessage has returned nil; when the first attempt is answered 2xx the call made
\* exactly 1 attempt.
C24_SuccessIsTerminal ==
    \A k \in 1..Attempts :
        Is2xx(responses[k]) =>
            /\ k = Attempts
            /\ Returned
            /\ hookResult = "nil"
            /\ (Is2xx(responses[1]) => Attempts = 1)

C24_Witness ==
    Returned /\ responses = <<Response(200)>> /\ hookResult = "nil"

\* C25: a call on a message with an empty endpoint has returned nil at once, without
\* any HTTP attempt, whatever the state of its context.
C25_EmptyEndpoint ==
    (url = "" /\ hookResult # "none") =>
        (Returned /\ hookResult = "nil" /\ Attempts = 0)

C25_Witness ==
    Returned /\ url = "" /\ hookResult = "nil" /\ Attempts = 0 /\ entryExpired

\* C26 (as stated): for a call with an endpoint, a call that returns after the
\* deadline has passed returns deadline exceeded.
C26_DeadlineExceededWhenPassed ==
    (url # "" /\ Returned /\ ctxDone) => hookResult = "context deadline exceeded"

\* C26 (amended): for a call with an endpoint: a context already past its deadline
\* on entry makes the call return deadline exceeded with zero attempts; a call that
\* returns after the deadline has passed, other than during the reading of a received
\* response's body, returns deadline exceeded; and no attempt is started once the
\* deadline has passed.
C26_DeadlineBoundsTheCall ==
    /\ [](/\ (url # "" /\ entryExpired) =>
                (Returned /\ Attempts = 0 /\ hookResult = "context deadline exceeded")
          /\ (/\ url # "" /\ Returned /\ ctxDone
              /\ (Attempts = 0 \/ ~responses[Attempts].bodyErr)) =>
                hookResult = "context deadline exceeded")
    /\ [][(hookPc # "attempt" /\ hookPc' = "attempt") => ~ctxDone']_vars

C26_Witness ==
    /\ Returned /\ ctxDone /\ ~entryExpired
    /\ responses = <<Response(500)>>
    /\ hookResult = "context deadline exceeded"

(***************************************************************************)
(* Message store contract                                                  *)
(***************************************************************************)
\* C27: a CreateMessage call that returns a validation error leaves the stored
\* messages unchanged (the store's Create is not invoked), and a call that stores a
\* message was given a non-empty recipient, content and webhook_url: no request with
\* an empty field is ever stored.
C27_InvalidRequestRejected ==
    [][(ret'.w = NoWorker /\ ret' # NoReturn) =>
         IF ret'.err
         THEN messages' = messages
         ELSE /\ messages' = Append(messages, messages'[Len(messages')])
              /\ ret'.n = Len(messages')
              /\ messages'[ret'.n].recipient # ""
              /\ messages'[ret'.n].content # ""
              /\ messages'[ret'.n].webhook_url # ""]_vars

C27_Witness ==
    ret = [w |-> NoWorker, n |-> 0, err |-> TRUE] /\ Len(messages) = 1

\* C28: a Create call appends one message and leaves the others as they were; the
\* new message has status pending, retry_count 0 and max_retries equal to the
\* requested value, or 3 when that value is zero (omitted), and its id is greater
\* than every id assigned before.
C28_CreateDefaults ==
    [][reply'.call = "Create" =>
         /\ Len(messages') = Len(messages) + 1
         /\ \A i \in Ids : messages'[i] = messages[i] /\ reply'.id > i
         /\ reply'.id = Len(messages')
         /\ messages'[reply'.id].status = "pending"
         /\ messages'[reply'.id].retry_count = 0
         /\ messages'[reply'.id].max_retries =
                IF reply'.maxRetries = 0 THEN 3 ELSE reply'.maxRetries]_vars

C28_Witness ==
    /\ reply.call = "Create" /\ reply.id = 2 /\ reply.maxRetries = 0
    /\ messages[2].max_retries = 3 /\ messages[2].status = "pending"
    /\ messages[1].max_retries = 1

\* C29: MarkSent, MarkFailed and GetByID called with an id that is not stored return
\* a not-found error and leave every stored message unchanged.
C29_MissingIdNotFound ==
    [][(reply'.call \in {"MarkSent", "MarkFailed", "GetByID"} /\ reply'.id \notin Ids) =>
         (reply'.err = "not found" /\ messages' = messages)]_vars

C29_Witness ==
    /\ reply = [call |-> "MarkFailed", id |-> 2, err |-> "not found",
                before |-> "none", maxRetries |-> 0]
    /\ Len(messages) = 1 /\ messages[1].status = "pending"

\* C30: MarkSent on a message that is already sent returns nil, leaves the status
\* sent and every other message alone, and the sent_at it writes is not earlier
\* than the sent_at the message had.
C30_MarkSentIdempotent ==
    /\ [](\A i \in Ids :
            messages[i].status = "sent" =>
                /\ NotFound(i) = "nil"
                /\ MarkSent(i)[i].status = "sent"
                /\ MarkSent(i)[i].sent_at >= messages[i].sent_at
                /\ \A j \in Ids \ {i} : MarkSent(i)[j] = messages[j])
    /\ [][(reply'.call = "MarkSent" /\ reply'.before = "sent") =>
            /\ reply'.err = "nil"
            /\ messages'[reply'.id].status = "sent"
            /\ messages'[reply'.id].sent_at # NULL
            /\ \A j \in Ids :
                  (messages[j].sent_at # NULL
                      /\ messages[j].sent_at <= messages[reply'.id].sent_at)
                  => messages'[j].sent_at <= messages'[reply'.id].sent_at]_vars

C30_Witness ==
    /\ reply = [call |-> "MarkSent", id |-> 1, err |-> "nil", before |-> "sent",
                maxRetries |-> 0]
    /\ messages[1].status = "sent" /\ Len(messages) = 2 /\ messages[2].status = "sent"
    /\ messages[1].sent_at > messages[2].sent_at

Max(a, b) == IF a > b THEN a ELSE b

C32_CacheIsNoDependency ==
    [][/\ \A d \in {"sent", "failed", "skipped"}, o \in {"ok", "error"},
             c \in {"ok", "error", "skipped"} :
             processMessageStore(1, d, o, c)
                 => \A c2 \in {"ok", "error", "skipped"} : processMessageStore(1, d, o, c2)
       /\ cached' # cached
             => /\ pc[1] = "loop"
                /\ cached' = cached \cup {Cur(1).id}
                /\ messages[Cur(1).id].status # "sent"
                /\ messages'[Cur(1).id].status = "sent"]_vars

\* a call that counted a message whose cache write failed
C32_Witness ==
    /\ cache /\ cached = {}
    /\ pc[1] = "idle" /\ ret.w = 1 /\ ret.n >= 1 /\ ~ret.err
    /\ \E i \in Ids : messages[i].status = "sent"

\* C33: at-least-once.  A message goes from not sent to sent only in a step in which
\* a delivery attempt for it was handed to the Delivery Client and succeeded (no
\* stored message has an empty endpoint: CreateMessage rejects it).
C33_SentOnlyAfterDelivery ==
    [][\A i \in Ids :
          messages[i].status # "sent" /\ messages'[i].status = "sent"
              => webhookClient /\ cycles'[i] = cycles[i] + 1
                               /\ failedCycles'[i] = failedCycles[i]]_vars

\* C37: with a single worker, the retry_count of a message never exceeds its
\* max_retries, whatever sequence of ProcessUnsentMessages and RetryFailedMessages
\* calls is made.
C37_RetryCountBounded ==
    \A i \in Ids : messages[i].retry_count <= messages[i].max_retries

\* the goroutines of the loops that have not returned
Alive == {l \in Loops : loopPc[l] \in {"select", "once"}}

\* C34: lifecycle transitions are decided under the scheduler mutex.  A Start()
\* succeeds only on a Stopped scheduler that nobody is stopping, makes it Running
\* and spawns exactly two loops; a Stop() succeeds only on a Running scheduler and
\* makes it Stopped; at most one caller is inside a successful Stop at a time, so
\* of the callers racing on one state exactly one succeeds.
C34_OneWinner ==
    [][/\ (result'.call = "Start" /\ result'.val = "ok")
          => /\ ~running /\ running'
             /\ \A c \in Callers : callerPc[c] = "idle"
             /\ wg = 0 /\ wg' = 2
             /\ \A l \in Loops : loopPc[l] \notin {"select", "once"} /\ loopPc'[l] = "select"
       /\ (result'.call = "Stop" /\ result'.val = "ok") => running /\ ~running'
       /\ \A c \in Callers :
             (callerPc[c] # "stopping" /\ callerPc'[c] = "stopping")
                 => running /\ \A c2 \in Callers : callerPc[c2] # "stopping"
       /\ (result'.call \in {"Start", "Stop"} /\ result'.val \notin {"ok"})
             => UNCHANGED <<running, wg, loopPc, ctx>>]_vars

\* a caller that lost the race for Start() to another caller
C34_Witness ==
    /\ result.call = "Start" /\ result.val = "already running" /\ result.caller = 1
    /\ running /\ ctx = "active" /\ wg = 2 /\ starts = 1
    /\ Alive = Loops

\* C35: one task per loop.  The goroutines the WaitGroup counts are the loops that
\* are alive, at most one processing loop and one retry loop: a Start() spawns its
\* loops only when those of the Start() before have all returned; and a loop begins
\* an orchestrator invocation only from its select, after the one before returned.
C35_OneTaskPerLoop ==
    [][/\ wg = Cardinality(Alive) /\ wg' = Cardinality(Alive')
       /\ (result'.call = "Start" /\ result'.val = "ok") => Alive = {}
       /\ \A l \in Loops : (loopPc'[l] = "once" /\ loopPc[l] # "once")
                               => loopPc[l] = "select"]_vars

\* loops of a second Start() at work, those of the first having returned
C35_Witness ==
    /\ starts = 2 /\ running /\ wg = 2
    /\ loopPc["process"] = "once" /\ loopPc["retry"] = "once"

\* C36: whenever IsRunning() reports true, both loops are alive.
C36_RunningMeansLoopsAlive ==
    (result.call = "IsRunning" /\ result.val = "true") => Alive = Loops

\* C39: a scheduler can be restarted.  A Start() made after a Stop() has returned
\* succeeds, replaces the cancelled context by a fresh one that is not cancelled,
\* and spawns two new loops at their select, with a new ticker each; and so again
\* after every Stop().
C39_Restart ==
    [][(result'.call = "Start" /\ ~running /\ ctx = "cancelled")
       => /\ result'.val = "ok"
          /\ running' /\ ctx' = "active" /\ ~parentDone'
          /\ starts' = Min(starts + 1, MaxStarts)
          /\ wg' = 2
          /\ \A l \in Loops : loopPc[l] = "exited" /\ loopPc'[l] = "select" /\ ~tick'[l]]_vars

\* a loop of the second Start() has taken a tick and invokes the orchestrator
C39_Witness ==
    /\ starts = 2 /\ running /\ ctx = "active" /\ ~parentDone
    /\ loopPc["process"] = "once" /\ loopPc["retry"] = "select" /\ tick["retry"]

\* a response with a status that is neither 2xx, 4xx nor 5xx (1xx, 3xx)
IsOther(o) == o.err = "none" /\ ~Is2xx(o) /\ ~Is4xx(o) /\ ~Is5xx(o)

\* C40: an attempt answered with a status that is neither 2xx, 4xx nor 5xx is the
\* last attempt of the call: SendMessage has returned the unexpected-status error
\* and made no retry (exactly 1 attempt when it is the first answer).  Every answer
\* falls in exactly one class: an attempt that was followed by another one was
\* answered 5xx or failed in transport, and a call that returned nil ended on a 2xx.
C40_OtherStatusIsTerminal ==
    /\ \A k \in 1..Attempts :
          IsOther(responses[k]) =>
              /\ k = Attempts
              /\ Returned
              /\ hookResult = "unexpected status"
              /\ (IsOther(responses[1]) => Attempts = 1)
    /\ \A k \in 1..Attempts :
          /\ Cardinality({c \in {"2xx", "4xx", "5xx", "other", "transport"} :
                \/ c = "2xx" /\ Is2xx(responses[k])
                \/ c = "4xx" /\ Is4xx(responses[k])
                \/ c = "5xx" /\ Is5xx(responses[k])
                \/ c = "other" /\ IsOther(responses[k])
                \/ c = "transport" /\ responses[k].err # "none"}) = 1
          /\ k < Attempts => Retryable(responses[k])
    /\ (Returned /\ hookResult = "nil" /\ Attempts >= 1) => Is2xx(responses[Attempts])

C40_Witness ==
    /\ Returned /\ hookResult = "unexpected status"
    /\ responses = <<Response(302)>>

\* sent, or failed with no retry left
Final(i) == messages[i].status = "sent" \/ Terminal(messages[i])

====
